---- MODULE Spec2Model ----
(***************************************************************************)
(* Model of the request-handler builder (ApiBuilder), the dispatch         *)
(* function returned by ApiBuilder.build(), and the outbound fetch         *)
(* helpers fetchGet / fetchPost / fetchPut.                                *)
(*                                                                         *)
(* Objects are modelled as functions from their own keys to values, the    *)
(* response handle res as the list of status(code).json(body) calls made   *)
(* on it, and the collaborators the code only calls (the yup validator,    *)
(* the registered callbacks, the response handle, fetch and                *)
(* response.json) as nondeterministic steps. Every await of the code is a  *)
(* point where other calls and registrations interleave.                   *)
(***************************************************************************)
EXTENDS Integers, Sequences, FiniteSets, TLC

VARIABLES requests, latest, lastCall, nregs, built, invs, fetches

vars == <<requests, latest, lastCall, nregs, built, invs, fetches>>

------------------------------------------------------------------------------
(* Bounds of the model *)

\* number of method/get/post/put calls made on the builder while requests
\* are being dispatched (Spec, RouteSpec)
MaxRegs == 2
\* number of get(schemaA, callbackA) calls made under MergeSpec
MaxMergeRegs == 1
\* number of method/get/post/put calls made on the builder alone (BuilderSpec)
MaxBuilderCalls == 3
\* number of build() calls made on the builder alone (BuilderSpec)
MaxBuilds == 2
\* number of build() calls made on the builder of a route (Spec, RouteSpec,
\* MergeSpec)
MaxRouteBuilds == 1
\* number of responses a registered callback writes through res by itself
MaxCallbackWrites == 1

------------------------------------------------------------------------------
(* Values *)

\* type ApiMethods
ApiMethods == {"GET", "POST", "PUT", "DELETE", "OPTIONS"}

\* The property names every plain object literal inherits from
\* Object.prototype; the table is created as the literal {} and read with
\* requests[req.method].
ObjectPrototypeKeys ==
    { "constructor", "__defineGetter__", "__defineSetter__", "hasOwnProperty",
      "__lookupGetter__", "__lookupSetter__", "isPrototypeOf",
      "propertyIsEnumerable", "toString", "valueOf", "__proto__",
      "toLocaleString" }

\* req.method values a dispatch function is called with: the registrable
\* verbs, a verb outside ApiMethods, and two inherited keys of the table.
RequestMethods == ApiMethods \cup {"PATCH", "constructor", "valueOf"}

\* req.method values under RouteSpec
RouteMethods == {"GET", "POST", "PATCH"}

\* the calls of dispatch functions, and of fetch helpers, that are in
\* progress side by side; a call that has settled gives its place to a new one
Slots == {1, 2}

Schemas == {"schemaA", "schemaB"}
Callbacks == {"callbackA", "callbackB"}

\* the (schema, callback) pairs the builder's caller registers
Handlers == {<<"schemaA", "callbackA">>, <<"schemaB", "callbackB">>}

Keys == {"cursor", "limit"}
Values == {1, 2}

\* the objects req.query and req.body range over
Objects == UNION {[D -> Values] : D \in SUBSET Keys}

EmptyObject == [k \in {} |-> 0]

\* the (query, body) pair of the requests dispatched under Spec and
\* RouteSpec: a body that collides with the query on one key and adds another
DispatchInputs == { <<[cursor |-> 1], [cursor |-> 2, limit |-> 1]>> }

\* the (query, body) pairs of the requests dispatched under MergeSpec: the
\* query's values all 1 and the body's all 2, over key sets that give no
\* keys at all, keys on one side only, a key on both sides, and a key on
\* both sides beside a key of the query or of the body alone
MergeInputs ==
    { <<[k \in Q |-> 1], [k \in B |-> 2]>> :
         Q \in {{}, {"cursor"}, {"cursor", "limit"}},
         B \in {{}, {"cursor"}, {"limit"}} }

\* class NotFoundControllerError: super("Not Found")
NotFoundControllerError ==
    [kind |-> "NotFoundControllerError", message |-> "Not Found"]

\* class NotImplementedControllerError: super("Not Implemented")
NotImplementedControllerError ==
    [kind |-> "NotImplementedControllerError", message |-> "Not Implemented"]

\* what request.schema.validate throws when request.schema is undefined
TypeErrorUndefined ==
    [kind |-> "TypeError", message |-> "Cannot read properties of undefined"]

\* what a yup schema rejects with
ValidationError == [kind |-> "ValidationError", message |-> "invalid"]

\* what a response handle that was already answered throws on another
\* res.status(code).json(body), as node's ServerResponse does
HeadersSentError == [kind |-> "ERR_HTTP_HEADERS_SENT", message |-> "headers sent"]

NoError == [kind |-> "none", message |-> ""]

\* errors a registered callback throws: the two typed ones and plain Errors,
\* one of them carrying the message of a NotFoundControllerError
CallbackErrors ==
    { NotFoundControllerError,
      NotImplementedControllerError,
      [kind |-> "Error", message |-> "Not Found"],
      [kind |-> "Error", message |-> "boom"] }

\* the error the callbacks throw under RouteSpec and under MergeSpec
RouteErrors == {NotFoundControllerError}

\* const ApiReturns
ApiReturns ==
    [ ok       |-> [ok |-> TRUE],
      error    |-> [ok |-> FALSE],
      notFound |-> [ok |-> FALSE, message |-> "Not Found"] ]

------------------------------------------------------------------------------
(* Pure helpers *)

\* a spread in which the first object's value survives a collision
ObjectSpreadKeepTarget(target, source) ==
    [k \in (DOMAIN target) \cup (DOMAIN source) |->
        IF k \in DOMAIN target THEN target[k] ELSE source[k]]

\* { ...target, ...source }: the keys of both, source's value on a collision
ObjectSpread(target, source) ==
    [k \in (DOMAIN target) \cup (DOMAIN source) |->
        IF k \in DOMAIN source THEN source[k] ELSE target[k]]

\* { ...req.query, ...req.body }
MergeInput(query, body) ==
    ObjectSpread(ObjectSpread(EmptyObject, query), body)

\* a 400 body that leaves the validation error out
ValidationFailureBodyBare(error) == ApiReturns.error

\* { ...ApiReturns.error, error: error }
ValidationFailureBody(error) ==
    ObjectSpread(ApiReturns.error, [error |-> error])

\* what the code reads from a table slot
Undefined == [kind |-> "undefined", schema |-> "undefined", callback |-> "undefined"]

\* a value found on Object.prototype: truthy, with no schema and no callback
Inherited == [kind |-> "inherited", schema |-> "undefined", callback |-> "undefined"]

Entry(schema, callback) ==
    [kind |-> "handler", schema |-> schema, callback |-> callback]

\* requests[name] on a plain object: own property first, then the prototype
PropertyLookup(table, name) ==
    IF name \in DOMAIN table THEN table[name]
    ELSE IF name \in ObjectPrototypeKeys THEN Inherited
    ELSE Undefined

\* an assignment that replaces the whole table by the one new entry
SetEntryOnly(table, method, schema, callback) ==
    [m \in {method} |-> Entry(schema, callback)]

\* this.requests[method] = { schema, callback }
SetEntry(table, method, schema, callback) ==
    [m \in (DOMAIN table) \cup {method} |->
        IF m = method THEN Entry(schema, callback) ELSE table[m]]

\* a callback read from the table again at the time it is invoked
CallbackLookedUpAgain(request, currentTable, method) ==
    PropertyLookup(currentTable, method).callback

\* request.callback as read when the callback is invoked: taken from the
\* entry the invocation looked up at its start
CallbackToInvoke(request, currentTable, method) == request.callback

\* the catch block around the callback
ErrorResponse(error) ==
    IF error.kind = "NotFoundControllerError"
      THEN [status |-> 404, body |-> ApiReturns.notFound]
    ELSE IF error.kind = "NotImplementedControllerError"
      THEN [status |-> 405, body |-> ApiReturns.error]
    ELSE [status |-> 500, body |-> ApiReturns.error]

\* res.status(code).json(body), recorded with who made the call
Send(res, status, body, by) ==
    Append(res, [status |-> status, body |-> body, by |-> by])

\* the value a schema's validate resolves with for a candidate
Validated(schema, candidate) == <<"validated", schema, candidate>>

NoInput == <<"none", "none", EmptyObject>>

------------------------------------------------------------------------------
(* State *)

NoInv ==
    [ pc |-> "none", method |-> "none",
      query |-> EmptyObject, body |-> EmptyObject,
      request |-> Undefined, registered |-> FALSE, atBuild |-> Undefined,
      candidate |-> EmptyObject, validated |-> <<>>, validation |-> "none",
      input |-> NoInput, called |-> <<>>, calledWith |-> <<>>,
      thrown |-> NoError, res |-> <<>>, result |-> "none", escaped |-> NoError ]

NoCall ==
    [ op |-> "none", method |-> "none", schema |-> "none", callback |-> "none",
      returned |-> "none" ]

Urls == {"/items", "/items/1"}

\* response.status values of the responses fetch resolves with: the first
\* and last codes of the classes around the threshold and some common ones
Statuses == {100, 199, 200, 204, 299, 300, 301, 304, 404, 500}

\* statuses whose response never carries a body
NullBodyStatuses == {204, 304}

\* a body that is JSON text
JsonText == "{\"ok\":true}"

\* raw bodies of the responses: none, text that is not JSON, JSON text
Bodies == {"", "<html>", JsonText}

Responses ==
    {r \in [status : Statuses, body : Bodies] :
        r.status \in NullBodyStatuses => r.body = ""}

\* the data argument of fetchPost / fetchPut: a value JSON.stringify
\* serialises, and one it throws on (a cyclic object, a BigInt)
Payloads == {"d1", "cyclic"}

NoResponse == [status |-> 0, body |-> "none"]

NoFetchError == [kind |-> "none", response |-> NoResponse, message |-> <<>>]

NoValue == <<"none", "none">>

NoFetch ==
    [ pc |-> "none", helper |-> "none", url |-> "none",
      init |-> [method |-> "none", body |-> NoValue],
      response |-> NoResponse, outcome |-> "none", error |-> NoFetchError,
      value |-> NoValue, decoded |-> FALSE ]

\* requests   the builder's table object (this.requests); the dispatch
\*            functions built from the builder hold a reference to it
\* latest     for each verb, the arguments of the most recent registering call
\* lastCall   the most recent method/get/post/put call and what it returned
\* nregs      number of registering calls made
\* built      one element per build() call: the table's content at that call
\* invs       the calls of dispatch functions in progress or last settled
\* fetches    the calls of fetch helpers in progress or last settled
Init ==
    /\ requests = EmptyObject
    /\ latest = EmptyObject
    /\ lastCall = NoCall
    /\ nregs = 0
    /\ built = <<>>
    /\ invs = [s \in Slots |-> NoInv]
    /\ fetches = [s \in Slots |-> NoFetch]

------------------------------------------------------------------------------
(* ApiBuilder *)

\* method(method, schema, callback): one assignment into the table, returns this
Register(op, method, schema, callback) ==
    /\ nregs' = nregs + 1
    /\ requests' = SetEntry(requests, method, schema, callback)
    /\ latest' = [m \in (DOMAIN latest) \cup {method} |->
                    IF m = method THEN <<schema, callback>> ELSE latest[m]]
    /\ lastCall' = [op |-> op, method |-> method, schema |-> schema,
                    callback |-> callback, returned |-> "this"]
    /\ UNCHANGED <<built, invs, fetches>>

Method(method, schema, callback) == Register("method", method, schema, callback)

Post(schema, callback) == Register("post", "POST", schema, callback)

Get(schema, callback) == Register("get", "GET", schema, callback)

Put(schema, callback) == Register("put", "PUT", schema, callback)

\* build(): const requests = this.requests; return async function handler
Build ==
    /\ built' = Append(built, requests)
    /\ UNCHANGED <<requests, latest, lastCall, nregs, invs, fetches>>

------------------------------------------------------------------------------
(* The dispatch function returned by build() *)

\* no call, or a call that has settled
Finished(i) == i.pc \in {"none", "done"}

\* the place a new call takes: the first one whose call has settled
FreeSlot(calls, s) ==
    /\ Finished(calls[s])
    /\ \A t \in Slots : t < s => ~Finished(calls[t])

\* handler(req, res) up to its first suspension: the lookup, the 405 of an
\* unregistered method, and the call of request.schema.validate
HandlerStart(s, h, method, query, body) ==
    /\ h \in 1..Len(built)
    /\ FreeSlot(invs, s)
    /\ LET request == PropertyLookup(requests, method)
           start   == [NoInv EXCEPT !.method = method, !.query = query,
                                    !.body = body, !.request = request,
                                    !.registered = (method \in DOMAIN requests),
                                    !.atBuild = PropertyLookup(built[h], method),
                                    !.result = "pending"]
       IN  IF request.kind = "undefined"
             THEN invs' = [invs EXCEPT ![s] = [start EXCEPT
                            !.res = Send(<<>>, 405, ApiReturns.error, "dispatch"),
                            !.pc = "done", !.result = "returned"]]
           ELSE IF request.schema = "undefined"
             \* request.schema.validate throws a TypeError inside the first try
             THEN invs' = [invs EXCEPT ![s] = [start EXCEPT
                            !.res = Send(<<>>, 400,
                                         ValidationFailureBody(TypeErrorUndefined),
                                         "dispatch"),
                            !.pc = "done", !.result = "returned"]]
           ELSE invs' = [invs EXCEPT ![s] = [start EXCEPT
                            !.candidate = MergeInput(query, body),
                            !.validated = <<request.schema>>,
                            !.pc = "validating"]]
    /\ UNCHANGED <<requests, latest, lastCall, nregs, built, fetches>>

\* validate resolves: input is set and request.callback is called
ValidateResolves(s) ==
    /\ invs[s].pc = "validating"
    /\ LET inv   == invs[s]
           input == Validated(inv.request.schema, inv.candidate)
       IN  invs' = [invs EXCEPT ![s] = [inv EXCEPT
                     !.validation = "resolved",
                     !.input = input,
                     !.called = <<CallbackToInvoke(inv.request, requests, inv.method)>>,
                     !.calledWith = <<input>>,
                     !.pc = "callback"]]
    /\ UNCHANGED <<requests, latest, lastCall, nregs, built, fetches>>

\* validate rejects: 400 with the error attached, and the handler returns
ValidateRejects(s) ==
    /\ invs[s].pc = "validating"
    /\ invs' = [invs EXCEPT ![s] = [invs[s] EXCEPT
                 !.validation = "rejected",
                 !.res = Send(invs[s].res, 400,
                              ValidationFailureBody(ValidationError), "dispatch"),
                 !.pc = "done", !.result = "returned"]]
    /\ UNCHANGED <<requests, latest, lastCall, nregs, built, fetches>>

CallbackWritesMade(res) == Cardinality({k \in 1..Len(res) : res[k].by = "callback"})

\* the registered callback writes its response through ctx.res
CallbackWrites(s) ==
    /\ invs[s].pc = "callback"
    /\ CallbackWritesMade(invs[s].res) < MaxCallbackWrites
    /\ invs' = [invs EXCEPT ![s] = [invs[s] EXCEPT
                 !.res = Send(invs[s].res, 200, ApiReturns.ok, "callback")]]
    /\ UNCHANGED <<requests, latest, lastCall, nregs, built, fetches>>

\* the callback's promise resolves: the handler returns its value
CallbackReturns(s) ==
    /\ invs[s].pc = "callback"
    /\ invs' = [invs EXCEPT ![s] = [invs[s] EXCEPT
                 !.pc = "done", !.result = "returned"]]
    /\ UNCHANGED <<requests, latest, lastCall, nregs, built, fetches>>

\* the callback throws or rejects: the catch block answers by the error's
\* kind. On a res that was already answered the call res.status().json()
\* either goes through (a handle that accepts any number of answers) or
\* throws out of the catch block (refused), and the handler's promise rejects.
CallbackThrows(s, error, refused) ==
    /\ invs[s].pc = "callback"
    /\ refused => Len(invs[s].res) >= 1
    /\ LET r == ErrorResponse(error)
       IN  invs' = [invs EXCEPT ![s] =
                     IF refused
                       THEN [invs[s] EXCEPT
                               !.thrown = error,
                               !.escaped = HeadersSentError,
                               !.pc = "done", !.result = "rejected"]
                       ELSE [invs[s] EXCEPT
                               !.thrown = error,
                               !.res = Send(invs[s].res, r.status, r.body, "dispatch"),
                               !.pc = "done", !.result = "returned"]]
    /\ UNCHANGED <<requests, latest, lastCall, nregs, built, fetches>>

------------------------------------------------------------------------------
(* Fetch helpers *)

\* new FetchRequestError(response, `Error fetching from ${url}`)
FetchRequestError(response, url) ==
    [ kind |-> "FetchRequestError", response |-> response,
      message |-> <<"Error fetching from ", url>> ]

\* what fetch rejects with when no response arrives
NetworkError ==
    [kind |-> "TypeError", response |-> NoResponse, message |-> <<"fetch failed">>]

\* what JSON.stringify throws on a value it cannot serialise
StringifyError ==
    [kind |-> "TypeError", response |-> NoResponse, message |-> <<"not serialisable">>]

\* what response.json() rejects with
SyntaxError ==
    [kind |-> "SyntaxError", response |-> NoResponse, message |-> <<"not JSON">>]

\* response.json(): the decoded body, or a rejection when the body is empty
\* or is not JSON
Json(response) ==
    IF response.body = JsonText
      THEN [ok |-> TRUE, value |-> <<"json", response.body>>, error |-> NoFetchError]
      ELSE [ok |-> FALSE, value |-> NoValue, error |-> SyntaxError]

\* JSON.stringify(data)
Stringify(data) ==
    IF data = "cyclic"
      THEN [ok |-> FALSE, value |-> NoValue, error |-> StringifyError]
      ELSE [ok |-> TRUE, value |-> <<"stringify", data>>, error |-> NoFetchError]

\* fetchGet(url) up to its await of fetch
fetchGet(url) ==
    [NoFetch EXCEPT !.pc = "fetching", !.helper = "fetchGet", !.url = url,
                    !.init = [method |-> "GET", body |-> NoValue]]

\* fetchPostOrPut(method, url, data) up to its await of fetch; a throw of
\* JSON.stringify rejects the call before fetch is called
fetchPostOrPut(method, url, data) ==
    LET body == Stringify(data)
        call == [NoFetch EXCEPT !.helper = "fetchPostOrPut", !.url = url,
                                !.init = [method |-> method, body |-> body.value]]
    IN  IF body.ok
          THEN [call EXCEPT !.pc = "fetching"]
          ELSE [call EXCEPT !.pc = "done", !.outcome = "rejects",
                            !.error = body.error]

\* the async functions fetchPost and fetchPut settle one turn after the
\* fetchPostOrPut call they await
Awaited(call) ==
    IF call.pc = "done" THEN [call EXCEPT !.pc = "returning"] ELSE call

\* fetchPost(url, data): return await fetchPostOrPut("POST", url, data)
fetchPost(url, data) ==
    [Awaited(fetchPostOrPut("POST", url, data)) EXCEPT !.helper = "fetchPost"]

\* fetchPut(url, data): return await fetchPostOrPut("PUT", url, data)
fetchPut(url, data) ==
    [Awaited(fetchPostOrPut("PUT", url, data)) EXCEPT !.helper = "fetchPut"]

\* a status test that lets status 300 through
fetchGetResumesAbove300(call, response) ==
    IF response.status > 300
      THEN [call EXCEPT !.response = response, !.pc = "done",
                        !.outcome = "throws",
                        !.error = FetchRequestError(response, call.url)]
      ELSE [call EXCEPT !.response = response, !.pc = "decoding",
                        !.decoded = TRUE]

\* fetchGet resumed with the response: if (response.status >= 300) throw new
\* FetchRequestError(...); otherwise response.json() is called
fetchGetResumes(call, response) ==
    IF response.status >= 300
      THEN [call EXCEPT !.response = response, !.pc = "done",
                        !.outcome = "throws",
                        !.error = FetchRequestError(response, call.url)]
      ELSE [call EXCEPT !.response = response, !.pc = "decoding",
                        !.decoded = TRUE]

\* fetchPostOrPut resumed with the response: the same test and the same call
\* of response.json()
fetchPostOrPutResumes(call, response) ==
    IF response.status >= 300
      THEN [call EXCEPT !.response = response, !.pc = "done",
                        !.outcome = "throws",
                        !.error = FetchRequestError(response, call.url)]
      ELSE [call EXCEPT !.response = response, !.pc = "decoding",
                        !.decoded = TRUE]

\* a call of fetchGet
FetchGet(s, url) ==
    /\ FreeSlot(fetches, s)
    /\ fetches' = [fetches EXCEPT ![s] = fetchGet(url)]
    /\ UNCHANGED <<requests, latest, lastCall, nregs, built, invs>>

\* a call of fetchPost
FetchPost(s, url, data) ==
    /\ FreeSlot(fetches, s)
    /\ fetches' = [fetches EXCEPT ![s] = fetchPost(url, data)]
    /\ UNCHANGED <<requests, latest, lastCall, nregs, built, invs>>

\* a call of fetchPut
FetchPut(s, url, data) ==
    /\ FreeSlot(fetches, s)
    /\ fetches' = [fetches EXCEPT ![s] = fetchPut(url, data)]
    /\ UNCHANGED <<requests, latest, lastCall, nregs, built, invs>>

\* a call of the exported fetchPostOrPut itself
FetchPostOrPut(s, method, url, data) ==
    /\ FreeSlot(fetches, s)
    /\ fetches' = [fetches EXCEPT ![s] = fetchPostOrPut(method, url, data)]
    /\ UNCHANGED <<requests, latest, lastCall, nregs, built, invs>>

\* fetch resolves with a response and the helper resumes
FetchResolves(s, response) ==
    /\ fetches[s].pc = "fetching"
    /\ LET call == fetches[s]
           next == IF call.helper = "fetchGet"
                     THEN fetchGetResumes(call, response)
                     ELSE fetchPostOrPutResumes(call, response)
       IN  fetches' = [fetches EXCEPT ![s] =
                         IF call.helper \in {"fetchPost", "fetchPut"}
                           THEN Awaited(next) ELSE next]
    /\ UNCHANGED <<requests, latest, lastCall, nregs, built, invs>>

\* fetch rejects: the helper rejects with the same error
FetchRejects(s) ==
    /\ fetches[s].pc = "fetching"
    /\ LET call == fetches[s]
           next == [call EXCEPT !.pc = "done", !.outcome = "rejects",
                                !.error = NetworkError]
       IN  fetches' = [fetches EXCEPT ![s] =
                         IF call.helper \in {"fetchPost", "fetchPut"}
                           THEN Awaited(next) ELSE next]
    /\ UNCHANGED <<requests, latest, lastCall, nregs, built, invs>>

\* response.json() settles: the helper returns the decoded body, or rejects
\* with the decoder's error
JsonSettles(s) ==
    /\ fetches[s].pc = "decoding"
    /\ LET call == fetches[s]
           j    == Json(call.response)
           next == IF j.ok
                     THEN [call EXCEPT !.pc = "done", !.outcome = "returns",
                                       !.value = j.value]
                     ELSE [call EXCEPT !.pc = "done", !.outcome = "rejects",
                                       !.error = j.error]
       IN  fetches' = [fetches EXCEPT ![s] =
                         IF call.helper \in {"fetchPost", "fetchPut"}
                           THEN Awaited(next) ELSE next]
    /\ UNCHANGED <<requests, latest, lastCall, nregs, built, invs>>

\* fetchPost / fetchPut resume from their await and settle as the
\* fetchPostOrPut call did
AwaitSettles(s) ==
    /\ fetches[s].pc = "returning"
    /\ fetches' = [fetches EXCEPT ![s] = [fetches[s] EXCEPT !.pc = "done"]]
    /\ UNCHANGED <<requests, latest, lastCall, nregs, built, invs>>

------------------------------------------------------------------------------
(* Specifications *)

\* the steps of the calls of the built functions, two calls side by side:
\* every step of the handler, for the built functions, request methods,
\* (query, body) pairs and callback errors given
Handler(builds, methods, inputs, errors) ==
    \/ \E s \in Slots, h \in builds, m \in methods, io \in inputs :
          HandlerStart(s, h, m, io[1], io[2])
    \/ \E s \in Slots : ValidateResolves(s)
    \/ \E s \in Slots : ValidateRejects(s)
    \/ \E s \in Slots : CallbackWrites(s)
    \/ \E s \in Slots : CallbackReturns(s)
    \/ \E s \in Slots, e \in errors, refused \in BOOLEAN :
          CallbackThrows(s, e, refused)

\* one route file: a builder filled through get, post and method("DELETE"),
\* built, and its dispatch function called with every request method while
\* the builder may still be registered on
Next ==
    \/ nregs < MaxRegs /\ \E p \in Handlers : Method("DELETE", p[1], p[2])
    \/ nregs < MaxRegs /\ \E p \in Handlers : Post(p[1], p[2])
    \/ nregs < MaxRegs /\ \E p \in Handlers : Get(p[1], p[2])
    \/ Len(built) < MaxRouteBuilds /\ Build
    \/ Handler(1..MaxRouteBuilds, RequestMethods, DispatchInputs, CallbackErrors)

Spec == Init /\ [][Next]_vars

\* a route file with get and post, called with GET, POST and a verb it does
\* not register, its callbacks throwing the not-found error
RouteNext ==
    \/ nregs < MaxRegs /\ \E p \in Handlers : Post(p[1], p[2])
    \/ nregs < MaxRegs /\ \E p \in Handlers : Get(p[1], p[2])
    \/ Len(built) < MaxRouteBuilds /\ Build
    \/ Handler(1..MaxRouteBuilds, RouteMethods, DispatchInputs, RouteErrors)

RouteSpec == Init /\ [][RouteNext]_vars

\* a route built by get(schemaA, callbackA), called with GET and every
\* combination of keys in the query and in the body
MergeNext ==
    \/ nregs < MaxMergeRegs /\ Get("schemaA", "callbackA")
    \/ Len(built) < MaxRouteBuilds /\ Build
    \/ Handler(1..MaxRouteBuilds, {"GET"}, MergeInputs, RouteErrors)

MergeSpec == Init /\ [][MergeNext]_vars

\* the builder alone: registrations and build() calls
BuilderNext ==
    \/ nregs < MaxBuilderCalls /\
          \E m \in ApiMethods, p \in Handlers : Method(m, p[1], p[2])
    \/ nregs < MaxBuilderCalls /\ \E p \in Handlers : Post(p[1], p[2])
    \/ nregs < MaxBuilderCalls /\ \E p \in Handlers : Get(p[1], p[2])
    \/ nregs < MaxBuilderCalls /\ \E p \in Handlers : Put(p[1], p[2])
    \/ Len(built) < MaxBuilds /\ Build

BuilderSpec == Init /\ [][BuilderNext]_vars

\* the fetch helpers over every url, payload and response
FetchNext ==
    \/ \E s \in Slots, u \in Urls : FetchGet(s, u)
    \/ \E s \in Slots, u \in Urls, d \in Payloads : FetchPost(s, u, d)
    \/ \E s \in Slots, u \in Urls, d \in Payloads : FetchPut(s, u, d)
    \/ \E s \in Slots, m \in {"POST", "PUT"}, u \in Urls, d \in Payloads :
          FetchPostOrPut(s, m, u, d)
    \/ \E s \in Slots, r \in Responses : FetchResolves(s, r)
    \/ \E s \in Slots : FetchRejects(s)
    \/ \E s \in Slots : JsonSettles(s)
    \/ \E s \in Slots : AwaitSettles(s)

FetchSpec == Init /\ [][FetchNext]_vars

------------------------------------------------------------------------------
(* Properties *)

DispatchSends(res) == {k \in 1..Len(res) : res[k].by = "dispatch"}

\* C1: a request whose method was never registered on the builder is answered
\* with exactly one response, 405 {ok:false}, and neither a validator nor a
\* callback is invoked for it.
C1_UnregisteredIs405 ==
    \A s \in Slots :
        (invs[s].pc = "done" /\ ~invs[s].registered) =>
            /\ invs[s].res =
                  <<[status |-> 405, body |-> [ok |-> FALSE], by |-> "dispatch"]>>
            /\ invs[s].validated = <<>>
            /\ invs[s].called = <<>>

\* C2: when the registered schema's validate rejects the merged input, the
\* only response is 400 with ok:false and the validation error in `error`,
\* the invocation is over, and the callback was not invoked.
C2_ValidationFailureIs400 ==
    \A s \in Slots :
        invs[s].validation = "rejected" =>
            /\ invs[s].registered
            /\ invs[s].pc = "done"
            /\ invs[s].result = "returned"
            /\ Len(invs[s].res) = 1
            /\ invs[s].res[1].status = 400
            /\ invs[s].res[1].by = "dispatch"
            /\ DOMAIN invs[s].res[1].body = {"ok", "error"}
            /\ invs[s].res[1].body["ok"] = FALSE
            /\ invs[s].res[1].body["error"] = ValidationError
            /\ invs[s].called = <<>>

\* a validation failure of one request while another request is in its callback
C2_Witness ==
    \E s, t \in Slots :
        /\ s # t
        /\ invs[s].validation = "rejected"
        /\ invs[s].pc = "done"
        /\ invs[s].request.kind = "handler"
        /\ DOMAIN invs[s].candidate = {"cursor", "limit"}
        /\ invs[t].pc = "callback"

\* C3: when the callback throws after a successful validation, the dispatch
\* function sends one response, decided by the kind of the error alone:
\* NotFoundControllerError 404 {ok:false, message:"Not Found"},
\* NotImplementedControllerError 405 {ok:false}, anything else 500 {ok:false}.
C3_ErrorKindDecidesResponse ==
    \A s \in Slots :
        invs[s].thrown # NoError =>
            /\ invs[s].validation = "resolved"
            /\ Cardinality(DispatchSends(invs[s].res)) = 1
            /\ LET r == invs[s].res[Len(invs[s].res)]
               IN  /\ r.by = "dispatch"
                   /\ invs[s].thrown.kind = "NotFoundControllerError" =>
                         /\ r.status = 404
                         /\ r.body = [ok |-> FALSE, message |-> "Not Found"]
                   /\ invs[s].thrown.kind = "NotImplementedControllerError" =>
                         /\ r.status = 405
                         /\ r.body = [ok |-> FALSE]
                   /\ invs[s].thrown.kind \notin {"NotFoundControllerError",
                                                  "NotImplementedControllerError"} =>
                         /\ r.status = 500
                         /\ r.body = [ok |-> FALSE]

\* C4: a dispatch function uses the handler table as it was at its own
\* build() call: the entry an invocation finds for its method is the entry
\* the table held for that method when the function was built.
C4_BoundToTableAtBuild ==
    \A s \in Slots : invs[s].pc # "none" => invs[s].request = invs[s].atBuild

\* C5: every finished invocation has sent a response on res and its promise
\* has not rejected, whatever the validator and the callback did.
C5_AlwaysAnswers ==
    \A s \in Slots :
        invs[s].pc = "done" =>
            /\ Len(invs[s].res) >= 1
            /\ invs[s].result = "returned"

\* C7: the candidate handed to the validator has the keys of the query and of
\* the body, the body's value for every key of the body, and the query's
\* value for the keys only the query has.
C7_CandidateIsQueryOverlaidByBody ==
    \A s \in Slots :
        invs[s].validated # <<>> =>
            /\ DOMAIN invs[s].candidate =
                  (DOMAIN invs[s].query) \cup (DOMAIN invs[s].body)
            /\ \A k \in DOMAIN invs[s].body : invs[s].candidate[k] = invs[s].body[k]
            /\ \A k \in (DOMAIN invs[s].query) \ (DOMAIN invs[s].body) :
                  invs[s].candidate[k] = invs[s].query[k]
            /\ invs[s].validation = "resolved" =>
                  invs[s].input =
                     <<"validated", invs[s].validated[1], invs[s].candidate>>

\* a call whose body overrode the query on one key and kept another key of
\* the query, while a second call with another candidate is in progress
C7_Witness ==
    \E s, t \in Slots :
        /\ invs[t].pc \in {"validating", "callback"}
        /\ invs[t].candidate # invs[s].candidate
        /\ invs[s].pc = "callback"
        /\ invs[s].validation = "resolved"
        /\ \E k \in (DOMAIN invs[s].query) \cap (DOMAIN invs[s].body) :
              /\ invs[s].query[k] # invs[s].body[k]
              /\ invs[s].candidate[k] = invs[s].body[k]
        /\ \E k \in (DOMAIN invs[s].query) \ (DOMAIN invs[s].body) :
              invs[s].candidate[k] = invs[s].query[k]

\* C8: after any sequence of method/get/post/put calls the table holds, for
\* each verb, exactly the schema and callback of the most recent registration
\* of that verb and nothing for a verb never registered; get/post/put
\* register under GET/POST/PUT; every such call returns the builder.
C8_LastRegistrationWins ==
    /\ DOMAIN requests = DOMAIN latest
    /\ \A m \in DOMAIN requests :
          /\ requests[m].schema = latest[m][1]
          /\ requests[m].callback = latest[m][2]
    /\ lastCall.op # "none" =>
          /\ lastCall.returned = "this"
          /\ lastCall.op = "get" => lastCall.method = "GET"
          /\ lastCall.op = "post" => lastCall.method = "POST"
          /\ lastCall.op = "put" => lastCall.method = "PUT"
          /\ lastCall.method \in DOMAIN requests
          /\ requests[lastCall.method].schema = lastCall.schema
          /\ requests[lastCall.method].callback = lastCall.callback

\* GET registered with schemaA, seen by a build(), then registered again by
\* get(schemaB, callbackB) beside an entry for DELETE
C8_Witness ==
    /\ Len(built) >= 1
    /\ "GET" \in DOMAIN built[1]
    /\ built[1]["GET"].schema = "schemaA"
    /\ "DELETE" \in DOMAIN built[1]
    /\ DOMAIN requests = {"GET", "DELETE"}
    /\ lastCall.op = "get"
    /\ requests["GET"].callback = "callbackB"
    /\ requests["DELETE"] = built[1]["DELETE"]

\* C9: no invocation sends a second response on its res: the dispatch
\* function never sends on a res that already carries a response, also when
\* the callback wrote one and then threw.
C9_NoSecondResponse ==
    \A s \in Slots : \A k \in DispatchSends(invs[s].res) : k = 1

\* C10: the schema that validated the input and the callback that received
\* it are those of the one entry the invocation looked up at its start, a
\* pair registered together, also when the verb was registered again while
\* the validator was running and when another request is in progress.
C10_SchemaAndCallbackOfOneEntry ==
    \A s \in Slots :
        invs[s].called # <<>> =>
            /\ invs[s].request.kind = "handler"
            /\ invs[s].validated = <<invs[s].request.schema>>
            /\ invs[s].called = <<invs[s].request.callback>>
            /\ <<invs[s].validated[1], invs[s].called[1]>> \in Handlers
            /\ invs[s].calledWith = <<invs[s].input>>

\* two requests of one verb in their callbacks side by side, the first
\* started before the verb was registered again and the second after
C10_Witness ==
    \E s, t \in Slots :
        /\ invs[s].pc = "callback"
        /\ invs[t].pc = "callback"
        /\ invs[s].method = invs[t].method
        /\ invs[s].method \in DOMAIN requests
        /\ requests[invs[s].method] # invs[s].request
        /\ requests[invs[t].method] = invs[t].request

FetchHelpers == {"fetchGet", "fetchPost", "fetchPut", "fetchPostOrPut"}

\* the calls of the helpers that fetch has answered and that have settled
Answered(f) == f.helper \in FetchHelpers /\ f.pc = "done" /\ f.response # NoResponse

\* what a call does with a status of 300 or more
FetchErrorPath(f) ==
    f.response.status >= 300 =>
        /\ f.outcome = "throws"
        /\ f.error.kind = "FetchRequestError"
        /\ f.error.response = f.response
        /\ f.error.message = <<"Error fetching from ", f.url>>
        /\ ~f.decoded

\* C6 as stated: a status of 300 or more fails with a FetchRequestError that
\* carries the response and names the URL, without decoding; a status in
\* 200..299 returns the decoded body; the helper succeeds exactly for the
\* statuses 200..299.
C6_SuccessExactly2xx ==
    \A s \in Slots :
        Answered(fetches[s]) =>
            /\ FetchErrorPath(fetches[s])
            /\ fetches[s].response.status \in 200..299 =>
                  /\ fetches[s].outcome = "returns"
                  /\ fetches[s].value = <<"json", fetches[s].response.body>>
            /\ fetches[s].outcome = "returns" <=>
                  fetches[s].response.status \in 200..299

\* C6 amended: a status of 300 or more fails with a FetchRequestError that
\* carries the response and names the URL, without decoding; every status
\* below 300, those below 200 included, has the body decoded: the helper
\* returns the decoded body when it is JSON and rejects with the decoder's
\* error when it is empty or not JSON; the FetchRequestError is thrown
\* exactly for the statuses of 300 or more, and a call fetch did not answer
\* rejects without one.
C6_DecodesExactlyBelow300 ==
    \A s \in Slots :
        /\ Answered(fetches[s]) =>
              /\ FetchErrorPath(fetches[s])
              /\ fetches[s].response.status < 300 =>
                    /\ fetches[s].decoded
                    /\ fetches[s].response.body = "{\"ok\":true}" =>
                          /\ fetches[s].outcome = "returns"
                          /\ fetches[s].value = <<"json", fetches[s].response.body>>
                    /\ fetches[s].response.body # "{\"ok\":true}" =>
                          /\ fetches[s].outcome = "rejects"
                          /\ fetches[s].error.kind = "SyntaxError"
              /\ fetches[s].error.kind = "FetchRequestError" <=>
                    fetches[s].response.status >= 300
        /\ (fetches[s].pc = "done" /\ fetches[s].response = NoResponse) =>
              /\ fetches[s].outcome = "rejects"
              /\ fetches[s].error.kind = "TypeError"
              /\ ~fetches[s].decoded

\* a put answered 204 without a body rejecting with the decoder's error, beside
\* a post answered 199 with a JSON body returning it
C6_Witness ==
    \E s, t \in Slots :
        /\ fetches[s].helper = "fetchPut"
        /\ fetches[s].pc = "done"
        /\ fetches[s].response.status = 204
        /\ fetches[s].outcome = "rejects"
        /\ fetches[s].error.kind = "SyntaxError"
        /\ fetches[t].helper = "fetchPost"
        /\ fetches[t].pc = "done"
        /\ fetches[t].response.status = 199
        /\ fetches[t].outcome = "returns"

====
